---- MODULE Spec2Model ----
(***************************************************************************)
(* A model of keylime/common.py: the request-parameter parser              *)
(* (get_restful_params, list_to_dict), the exclusion-list validator        *)
(* (valid_exclude_list, valid_regex), the JSON response emitter            *)
(* (echo_json_response) and the lazily initialised process-wide            *)
(* configuration (get_config).                                             *)
(*                                                                         *)
(* Python strings are modelled as sequences of one-character strings, so   *)
(* that strip, split, indexing and len are computed character by           *)
(* character.  A Python dict is modelled as a sequence of <<key, value>>   *)
(* pairs with pairwise distinct keys, in insertion order.                  *)
(***************************************************************************)
EXTENDS Integers, Sequences, FiniteSets, TLC

VARIABLES
    args,             \* the arguments of the pure function under analysis
    ret,              \* its outcome: a record with a "kind" field
    fpc,              \* "call" before the function ran, "done" after
    handler_calls,    \* echo_json_response: the calls made on the handler
    _CURRENT_CONFIG,  \* common.py:146, 0 is None, n > 0 the n-th ConfigParser
    pc,               \* get_config: the line each thread is at
    imported,         \* the import of keylime.common has completed
    objects,          \* number of ConfigParser objects constructed so far
    loaded,           \* the ConfigParser objects CONFIG_FILE was read into
    reads,            \* number of completed reads of CONFIG_FILE
    calls,            \* get_config calls each thread has started
    returns           \* what get_config returned: [obj, read] records

vars == <<args, ret, fpc, handler_calls, _CURRENT_CONFIG, pc, imported,
          objects, loaded, reads, calls, returns>>

funVars == <<args, ret, fpc, handler_calls>>
cfgVars == <<_CURRENT_CONFIG, pc, imported, objects, loaded, reads, calls, returns>>

-----------------------------------------------------------------------------
(* Bounds of the model.                                                    *)

MaxListLen == 4     \* longest token list given to list_to_dict
MaxSegs == 3        \* most path segments in a generated URL
MaxQuery == 2       \* most query items in a generated URL
MaxPatterns == 2    \* longest exclude list
NumWorkers == 2     \* threads calling get_config besides the importing one
MaxCalls == 2       \* get_config calls per thread

-----------------------------------------------------------------------------
(* Python values.                                                          *)

\* Python's None where a string may stand; no string of characters equals it.
None == <<"None">>

\* All sequences over S of length at most n.
SeqsUpTo(S, n) == UNION {[1..k -> S] : k \in 0..n}

\* dict.__contains__
DictHas(d, k) == \E i \in 1..Len(d) : d[i][1] = k

\* dict.__getitem__ (for a key the dict has)
DictGet(d, k) == d[CHOOSE i \in 1..Len(d) : d[i][1] = k][2]

\* dict.__setitem__: an existing key keeps its position, a new one is appended.
DictSet(d, k, v) ==
    IF DictHas(d, k)
    THEN [i \in 1..Len(d) |-> IF d[i][1] = k THEN <<k, v>> ELSE d[i]]
    ELSE Append(d, <<k, v>>)

\* dict.update with a list of (key, value) tuples, applied left to right.
RECURSIVE DictUpdate(_, _)
DictUpdate(d, pairs) ==
    IF pairs = <<>> THEN d
    ELSE DictUpdate(DictSet(d, pairs[1][1], pairs[1][2]), Tail(pairs))

-----------------------------------------------------------------------------
(* list_to_dict, common.py:243-250.                                        *)

\* The while loop; i is the 1-based index of list[i] in the source.
RECURSIVE list_to_dict_loop(_, _, _)
list_to_dict_loop(list, i, params) ==
    IF i <= Len(list)
    THEN list_to_dict_loop(list, i + 2,
             DictSet(params, list[i],
                     IF i + 1 <= Len(list) THEN list[i + 1] ELSE None))
    ELSE params

\* A slip in the bound of the value lookup: the last value is lost.
RECURSIVE list_to_dict_loop_short(_, _, _)
list_to_dict_loop_short(list, i, params) ==
    IF i <= Len(list)
    THEN list_to_dict_loop_short(list, i + 2,
             DictSet(params, list[i],
                     IF i + 1 < Len(list) THEN list[i + 1] ELSE None))
    ELSE params

list_to_dict_short(list) == list_to_dict_loop_short(list, 1, <<>>)

list_to_dict(list) == list_to_dict_loop(list, 1, <<>>)

\* The tokens the lists are drawn from.
TokenSet == {<<"a">>, <<"b">>, <<"1">>}

cfgIdle ==
    /\ _CURRENT_CONFIG = 0
    /\ pc = <<>>
    /\ imported = FALSE
    /\ objects = 0
    /\ loaded = {}
    /\ reads = 0
    /\ calls = <<>>
    /\ returns = {}

InitList ==
    /\ args \in {[list |-> T] : T \in SeqsUpTo(TokenSet, MaxListLen)}
    /\ ret = [kind |-> "none"]
    /\ fpc = "call"
    /\ handler_calls = <<>>
    /\ cfgIdle

CallListToDict ==
    /\ fpc = "call"
    /\ ret' = [kind |-> "dict", value |-> list_to_dict(args.list)]
    /\ fpc' = "done"
    /\ UNCHANGED <<args, handler_calls>>
    /\ UNCHANGED cfgVars

NextList == CallListToDict

SpecList == InitList /\ [][NextList]_vars

\* Flattening a dict back to key, value, key, value, ...
RECURSIVE Flatten(_)
Flatten(d) == IF d = <<>> THEN <<>> ELSE <<d[1][1], d[1][2]>> \o Flatten(Tail(d))

DistinctKeys(T) ==
    \A i, j \in 1..Len(T) : (i % 2 = 1 /\ j % 2 = 1 /\ i # j) => T[i] # T[j]

EvenList == fpc = "done" /\ Len(args.list) % 2 = 0

PairingHolds ==
    /\ Len(ret.value) * 2 = Len(args.list)
    /\ \A j \in 1..Len(ret.value) : ret.value[j][1] = args.list[2 * j - 1]
    /\ Flatten(ret.value) = args.list

\* C5 (as stated): for every even-length token list T = 2n, list_to_dict(T)
\* has exactly n entries, keys in the order of T, and flattening it gives T.
C5_PairsAndInverse == EvenList => PairingHolds

\* C5 (amended): the same, for even-length lists whose keys (the tokens at
\* even 0-based positions) are pairwise distinct.
C5_PairsAndInverseDistinctKeys ==
    (EvenList /\ DistinctKeys(args.list)) => PairingHolds

\* C5 witness: list_to_dict has run on a four-token list with two distinct keys.
C5_Witness ==
    /\ EvenList
    /\ Len(args.list) = 4
    /\ DistinctKeys(args.list)
    /\ Len(ret.value) = 2

-----------------------------------------------------------------------------
(* get_config, common.py:146-155, and its first call at import time,       *)
(* common.py:331.  Thread 0 is the thread that imports keylime.common; the *)
(* import system lets no other thread use the module's functions before    *)
(* the module body has run to its last line, which is line 331.  Threads   *)
(* may be switched between any two lines of get_config.                    *)

Main == 0
Threads == 0..NumWorkers

\* The module body up to line 331: _CURRENT_CONFIG = None (line 146) and the
\* importing thread entering get_config() for CA_IMPL.
ModuleBodyLazy ==
    /\ _CURRENT_CONFIG = 0
    /\ pc = [t \in Threads |-> "idle"]
    /\ imported = TRUE

ModuleBody ==
    /\ _CURRENT_CONFIG = 0
    /\ pc = [t \in Threads |-> IF t = Main THEN "l151" ELSE "idle"]
    /\ imported = FALSE

InitConfig ==
    /\ ModuleBody
    /\ objects = 0
    /\ loaded = {}
    /\ reads = 0
    /\ calls = [t \in Threads |-> IF pc[t] = "idle" THEN 0 ELSE 1]
    /\ returns = {}
    /\ args = <<>>
    /\ ret = [kind |-> "none"]
    /\ fpc = "idle"
    /\ handler_calls = <<>>

\* A thread calls get_config(); possible once the module is imported.
Call(t) ==
    /\ imported
    /\ pc[t] = "idle"
    /\ calls[t] < MaxCalls
    /\ pc' = [pc EXCEPT ![t] = "l151"]
    /\ calls' = [calls EXCEPT ![t] = @ + 1]
    /\ UNCHANGED <<_CURRENT_CONFIG, imported, objects, loaded, reads, returns>>

\* The test of line 151 that always takes the branch.
IsNoneAlways(cfg) == TRUE

\* line 151: _CURRENT_CONFIG is None
IsNone(cfg) == cfg = 0

\* line 151: if _CURRENT_CONFIG is None:
l151(t) ==
    /\ pc[t] = "l151"
    /\ pc' = [pc EXCEPT ![t] = IF IsNone(_CURRENT_CONFIG) THEN "l153" ELSE "l155"]
    /\ UNCHANGED <<_CURRENT_CONFIG, imported, objects, loaded, reads, calls, returns>>

\* line 153: _CURRENT_CONFIG = configparser.ConfigParser()
l153(t) ==
    /\ pc[t] = "l153"
    /\ objects' = objects + 1
    /\ _CURRENT_CONFIG' = objects + 1
    /\ pc' = [pc EXCEPT ![t] = "l154"]
    /\ UNCHANGED <<imported, loaded, reads, calls, returns>>

\* line 154: _CURRENT_CONFIG.read(CONFIG_FILE), on the object the global names
\* when the line runs.
l154(t) ==
    /\ pc[t] = "l154"
    /\ loaded' = loaded \cup {_CURRENT_CONFIG}
    /\ reads' = reads + 1
    /\ pc' = [pc EXCEPT ![t] = "l155"]
    /\ UNCHANGED <<_CURRENT_CONFIG, imported, objects, calls, returns>>

\* line 154 when the file does not parse: read() raises out of get_config.
l154raise(t) ==
    /\ pc[t] = "l154"
    /\ pc' = [pc EXCEPT ![t] = "raised"]
    /\ UNCHANGED <<_CURRENT_CONFIG, imported, objects, loaded, reads, calls, returns>>

\* line 155: return _CURRENT_CONFIG.  The importing thread goes on with
\* line 331, every later caller is done.
l155(t) ==
    /\ pc[t] = "l155"
    /\ returns' = returns \cup
           {[obj |-> _CURRENT_CONFIG, read |-> _CURRENT_CONFIG \in loaded]}
    /\ pc' = [pc EXCEPT ![t] = IF imported THEN "idle" ELSE "l331"]
    /\ UNCHANGED <<_CURRENT_CONFIG, imported, objects, loaded, reads, calls>>

\* line 331: .get('general', 'ca_implementation') finds the option; the module
\* body ends and the import completes.
l331 ==
    /\ pc[Main] = "l331"
    /\ imported' = TRUE
    /\ pc' = [pc EXCEPT ![Main] = "idle"]
    /\ UNCHANGED <<_CURRENT_CONFIG, objects, loaded, reads, calls, returns>>

\* line 331 when the option is missing: the import fails.
l331raise ==
    /\ pc[Main] = "l331"
    /\ pc' = [pc EXCEPT ![Main] = "raised"]
    /\ UNCHANGED <<_CURRENT_CONFIG, imported, objects, loaded, reads, calls, returns>>

NextConfig ==
    /\ UNCHANGED funVars
    /\ \/ \E t \in Threads : Call(t)
       \/ \E t \in Threads : l151(t)
       \/ \E t \in Threads : l153(t)
       \/ \E t \in Threads : l154(t)
       \/ \E t \in Threads : l154raise(t)
       \/ \E t \in Threads : l155(t)
       \/ l331
       \/ l331raise

SpecConfig == InitConfig /\ [][NextConfig]_vars

\* C8: under any interleaving of get_config callers the configuration object
\* is constructed at most once and the config file is read into it at most
\* once, and every call returns the same object.
C8_SingleInit ==
    /\ objects <= 1
    /\ reads <= 1
    /\ \A r1, r2 \in returns : r1.obj = r2.obj

\* C8 witness: two threads are inside get_config at the same time, a call has
\* already returned, and one object exists.
C8_Witness ==
    /\ \E t1, t2 \in Threads :
          t1 # t2 /\ pc[t1] \in {"l151", "l155"} /\ pc[t2] \in {"l151", "l155"}
    /\ returns # {}
    /\ objects = 1

\* C10: every object get_config has returned had the config file read into
\* it before the return.
C10_ReturnedIsLoaded == \A r \in returns : r.obj # 0 /\ r.read

\* C10 witness: a thread other than the importing one has had a call return
\* while another thread is at the test of line 151.
C10_Witness ==
    /\ \E t \in Threads \ {Main} : calls[t] >= 1 /\ pc[t] = "idle"
    /\ \E t \in Threads : pc[t] = "l151"
    /\ Cardinality(returns) = 1
    /\ _CURRENT_CONFIG \in loaded

-----------------------------------------------------------------------------
(* Strings: str.strip, str.find, str.split, str.join, str.replace.         *)

\* str.strip(ch) for a one-character ch.
RECURSIVE LStrip(_, _)
LStrip(s, ch) == IF s # <<>> /\ s[1] = ch THEN LStrip(Tail(s), ch) ELSE s

RECURSIVE RStrip(_, _)
RStrip(s, ch) ==
    IF s # <<>> /\ s[Len(s)] = ch THEN RStrip(SubSeq(s, 1, Len(s) - 1), ch) ELSE s

Strip(s, ch) == RStrip(LStrip(s, ch), ch)

\* str.find(ch, start) with 1-based positions: 0 when ch does not occur.
Find(s, ch, start) ==
    IF \E i \in start..Len(s) : s[i] = ch
    THEN CHOOSE i \in start..Len(s) :
             s[i] = ch /\ \A j \in start..(i - 1) : s[j] # ch
    ELSE 0

\* str.split(ch): always at least one piece.
RECURSIVE Split(_, _)
Split(s, ch) ==
    LET i == Find(s, ch, 1)
    IN  IF i = 0 THEN <<s>>
        ELSE <<SubSeq(s, 1, i - 1)>> \o Split(SubSeq(s, i + 1, Len(s)), ch)

\* str.split(ch, 1): at most two pieces.
Split1(s, ch) ==
    LET i == Find(s, ch, 1)
    IN  IF i = 0 THEN <<s>>
        ELSE <<SubSeq(s, 1, i - 1), SubSeq(s, i + 1, Len(s))>>

\* sep.join(list)
RECURSIVE Join(_, _)
Join(sep, list) ==
    IF list = <<>> THEN <<>>
    ELSE IF Len(list) = 1 THEN list[1]
    ELSE list[1] \o sep \o Join(sep, Tail(list))

\* str.replace('+', ' ')
ReplacePlus(s) == [i \in 1..Len(s) |-> IF s[i] = "+" THEN " " ELSE s[i]]

Letters == {"a", "b", "c", "d", "e", "f", "g", "h", "i", "j", "k", "l", "m",
            "n", "o", "p", "q", "r", "s", "t", "u", "v", "w", "x", "y", "z"}
Digits == {"0", "1", "2", "3", "4", "5", "6", "7", "8", "9"}
HexDigits == Digits \cup {"A", "B", "C", "D", "E", "F", "a", "b", "c", "d", "e", "f"}

-----------------------------------------------------------------------------
(* urllib.parse.urlsplit and urllib.parse.parse_qsl as get_restful_params  *)
(* calls them (common.py:260-261), with the default arguments.  The        *)
(* strings of the model are lower case, so scheme.lower() changes nothing. *)

scheme_chars == Letters \cup Digits \cup {"+", "-", "."}

\* _splitnetloc(url, 2): the netloc ends at the first of '/', '?', '#'.
splitnetloc(url) ==
    LET ends  == {Find(url, c, 3) : c \in {"/", "?", "#"}} \ {0}
        delim == IF ends = {} THEN Len(url) + 1
                 ELSE CHOOSE e \in ends : \A f \in ends : e <= f
    IN  [netloc |-> SubSeq(url, 3, delim - 1), rest |-> SubSeq(url, delim, Len(url))]

urlsplit(url) ==
    LET i  == Find(url, ":", 1)
        hasScheme == /\ i > 1
                     /\ url[1] \in Letters
                     /\ \A j \in 1..(i - 1) : url[j] \in scheme_chars
        scheme == IF hasScheme THEN SubSeq(url, 1, i - 1) ELSE <<>>
        u1 == IF hasScheme THEN SubSeq(url, i + 1, Len(url)) ELSE url
        hasNetloc == Len(u1) >= 2 /\ u1[1] = "/" /\ u1[2] = "/"
        nl == splitnetloc(u1)
        netloc == IF hasNetloc THEN nl.netloc ELSE <<>>
        u2 == IF hasNetloc THEN nl.rest ELSE u1
        f  == Split1(u2, "#")
        u3 == f[1]
        q  == Split1(u3, "?")
    IN  [scheme |-> scheme, netloc |-> netloc, path |-> q[1],
         query |-> IF Len(q) = 2 THEN q[2] ELSE <<>>,
         fragment |-> IF Len(f) = 2 THEN f[2] ELSE <<>>]

\* The escapes the generated URLs use; any other pair of hex digits stands
\* for a character outside the model's alphabet.
PercentChar(h1, h2) ==
    CASE <<h1, h2>> = <<"2", "F">> -> "/"
      [] <<h1, h2>> = <<"3", "D">> -> "="
      [] <<h1, h2>> = <<"2", "6">> -> "&"
      [] OTHER -> "."

\* urllib.parse.unquote: %XX becomes the character, a '%' that no two hex
\* digits follow stays.
RECURSIVE unquote(_)
unquote(s) ==
    IF s = <<>> THEN <<>>
    ELSE IF s[1] = "%" /\ Len(s) >= 3 /\ s[2] \in HexDigits /\ s[3] \in HexDigits
    THEN <<PercentChar(s[2], s[3])>> \o unquote(SubSeq(s, 4, Len(s)))
    ELSE <<s[1]>> \o unquote(Tail(s))

\* The loop of parse_qsl over the '&'-separated items: keep_blank_values and
\* strict_parsing are False, so an empty item, an item without '=' and an
\* item with an empty value are all skipped.
RECURSIVE parse_qsl_items(_)
parse_qsl_items(items) ==
    IF items = <<>> THEN <<>>
    ELSE LET nv == Split1(items[1], "=")
         IN  IF items[1] # <<>> /\ Len(nv) = 2 /\ Len(nv[2]) > 0
             THEN << <<unquote(ReplacePlus(nv[1])), unquote(ReplacePlus(nv[2]))>> >>
                      \o parse_qsl_items(Tail(items))
             ELSE parse_qsl_items(Tail(items))

parse_qsl(qs) == parse_qsl_items(Split(qs, "&"))

-----------------------------------------------------------------------------
(* get_restful_params, common.py:258-275.                                  *)

\* common.py:42
API_VERSION == <<"2">>

S_api_version == <<"a", "p", "i", "_", "v", "e", "r", "s", "i", "o", "n">>

\* lines 272-275 with the query merged first: the path overwrites the query.
MergeParamsPathLast(path_tokens, api_version, query_params) ==
    DictSet(DictUpdate(DictUpdate(<<>>, query_params), list_to_dict(path_tokens)),
            S_api_version, api_version)

\* lines 272-275: pair the path tokens, store the version, merge the query.
MergeParams(path_tokens, api_version, query_params) ==
    DictUpdate(DictSet(list_to_dict(path_tokens), S_api_version, api_version),
               query_params)

\* line 260: urlsplit(urlstring.strip("/"))
ParsedPath(urlstring) == urlsplit(Strip(urlstring, "/"))

\* line 262
PathTokens(urlstring) == Split(ParsedPath(urlstring).path, "/")

\* line 261
QueryParams(urlstring) == parse_qsl(ParsedPath(urlstring).query)

\* line 266: the first token is a version token
IsVersionToken(tok) == Len(tok) = 2 /\ tok[1] = "v"

get_restful_params(urlstring) ==
    LET query_params == QueryParams(urlstring)
        path_tokens  == PathTokens(urlstring)
    IN  IF IsVersionToken(path_tokens[1])
        THEN IF <<path_tokens[1][2]>> # API_VERSION
             THEN [kind |-> "None"]
             ELSE [kind |-> "dict",
                   value |-> MergeParams(Tail(path_tokens), path_tokens[1],
                                         query_params)]
        ELSE [kind |-> "dict",
              value |-> MergeParams(path_tokens, API_VERSION, query_params)]

-----------------------------------------------------------------------------
(* The URLs get_restful_params is applied to.  A URL is put together from  *)
(* a front (nothing, a leading '/', or scheme and host), path segments     *)
(* joined by '/', an optional '/' closing the path, an optional query of   *)
(* items joined by '&', and an ending (nothing or a '/').                   *)

FrontSet == {<<>>, <<"/">>, <<"h", "t", "t", "p", ":", "/", "/", "h", "/">>}

SegSet == {<<"v", "2">>, <<"v", "9">>, <<"a">>, S_api_version}

\* The query items, as written in the URL.
QItemSet == {<<"a", "=", "1">>, <<"a", "=", "%", "2", "F", "+">>, <<"a", "=">>, <<"a", "p", "i", "_", "v", "e", "r", "s", "i", "o", "n", "=", "9">>}

EndSet == {<<>>, <<"/">>}

UrlParts ==
    [front : FrontSet,
     segs  : SeqsUpTo(SegSet, MaxSegs),
     trail : {<<>>, <<"/">>},
     hasq  : BOOLEAN,
     items : SeqsUpTo(QItemSet, MaxQuery),
     end   : EndSet]

QueryText(p) ==
    IF p.hasq
    THEN <<"?">> \o Join(<<"&">>, p.items)
    ELSE <<>>

Assemble(p) == p.front \o Join(<<"/">>, p.segs) \o p.trail \o QueryText(p) \o p.end

InitParams ==
    /\ \E p \in UrlParts :
          /\ ~p.hasq => p.items = <<>>
          /\ args = [parts |-> p, urlstring |-> Assemble(p)]
    /\ ret = [kind |-> "none"]
    /\ fpc = "call"
    /\ handler_calls = <<>>
    /\ cfgIdle

CallGetRestfulParams ==
    /\ fpc = "call"
    /\ ret' = get_restful_params(args.urlstring)
    /\ fpc' = "done"
    /\ UNCHANGED <<args, handler_calls>>
    /\ UNCHANGED cfgVars

NextParams == CallGetRestfulParams

SpecParams == InitParams /\ [][NextParams]_vars

Parsed == fpc = "done" /\ ret.kind = "dict"

-----------------------------------------------------------------------------
(* What a generated URL says, read off its parts and not off the parser.   *)

\* The version token of the supported version, 'v2'.
ValidVersionSeg == <<"v">> \o API_VERSION

\* The URL's path begins with a two-character segment starting with 'v'.
LeadsWithVersionShape(p) ==
    Len(p.segs) >= 1 /\ Len(p.segs[1]) = 2 /\ p.segs[1][1] = "v"

\* The path segments that are to be paired: all but a leading 'v2'.
DataSegs(p) ==
    IF Len(p.segs) >= 1 /\ p.segs[1] = ValidVersionSeg THEN Tail(p.segs) ELSE p.segs

\* The values the path pairs with key k.
PathValuesOf(p, k) ==
    LET d == DataSegs(p)
    IN  {IF j + 1 <= Len(d) THEN d[j + 1] ELSE None :
            j \in {i \in 1..Len(d) : i % 2 = 1 /\ d[i] = k}}

PathKeys(p) == LET d == DataSegs(p) IN {d[i] : i \in {j \in 1..Len(d) : j % 2 = 1}}

\* The name a query item is written for.
ItemKey(item) ==
    IF item = <<"a", "p", "i", "_", "v", "e", "r", "s", "i", "o", "n", "=", "9">> THEN S_api_version ELSE <<"a">>

\* The value a query item is written for, percent-escapes and '+' decoded.
ItemDecoded(item) ==
    CASE item = <<"a", "=", "1">> -> <<"1">>
      [] item = <<"a", "=", "%", "2", "F", "+">> -> <<"/", " ">>
      [] item = <<"a", "=">> -> <<>>
      [] item = <<"a", "p", "i", "_", "v", "e", "r", "s", "i", "o", "n", "=", "9">> -> <<"9">>

\* The value of the i-th query item; a '/' ending the URL right after the
\* query belongs to the last item's value.
ItemValue(p, i) ==
    ItemDecoded(p.items[i])
        \o (IF i = Len(p.items) /\ p.end = <<"/">> THEN <<"/">> ELSE <<>>)

ItemKeys(p) == {ItemKey(p.items[i]) : i \in 1..Len(p.items)}

LastItemOf(p, k) ==
    CHOOSE i \in 1..Len(p.items) :
        ItemKey(p.items[i]) = k
        /\ \A j \in (i + 1)..Len(p.items) : ItemKey(p.items[j]) # k

\* C1 (as stated): a URL, bare path or with scheme and host, whose path
\* begins with a two-character segment 'v' + c, c not the API version, makes
\* get_restful_params return None.
C1_MismatchReturnsNone ==
    (/\ fpc = "done"
     /\ LeadsWithVersionShape(args.parts)
     /\ <<args.parts.segs[1][2]>> # API_VERSION)
    => ret.kind = "None"

\* C2 (as stated): a URL whose leading path segment is 'v' + API version is
\* parsed to a map whose api_version entry is the API version digit.  Stated
\* here for bare paths with no query parameter named api_version.
C2_VersionDigitStored ==
    (/\ fpc = "done"
     /\ args.parts.front # <<"h", "t", "t", "p", ":", "/", "/", "h", "/">>
     /\ Len(args.parts.segs) >= 1
     /\ args.parts.segs[1] = ValidVersionSeg
     /\ S_api_version \notin ItemKeys(args.parts))
    => /\ ret.kind = "dict"
       /\ DictHas(ret.value, S_api_version)
       /\ DictGet(ret.value, S_api_version) = API_VERSION

\* C3 (as stated): in every returned map the api_version entry is the version
\* negotiated from the path or the default one (written as the digit or as
\* the token), whatever the path and the query contain.
C3_VersionNotOverridden ==
    Parsed =>
        /\ DictHas(ret.value, S_api_version)
        /\ DictGet(ret.value, S_api_version) \in {API_VERSION, ValidVersionSeg}

\* The URL is a bare path with no '/' after its last segment or its query.
PlainUrl(p) ==
    /\ p.front \in {<<>>, <<"/">>}
    /\ p.trail = <<>>
    /\ p.end # <<"/">>

\* C4 (as stated): the returned map gives every query parameter name the
\* value of its last occurrence in the query, and every path key that no query
\* parameter names a value the path pairs with it.  Stated here for bare
\* paths with no '/' after the last segment or after the query.
C4_QueryLastWinsPathKept ==
    (Parsed /\ PlainUrl(args.parts)) =>
        /\ \A k \in ItemKeys(args.parts) :
              /\ DictHas(ret.value, k)
              /\ DictGet(ret.value, k) = ItemValue(args.parts, LastItemOf(args.parts, k))
        /\ \A k \in PathKeys(args.parts) \ ItemKeys(args.parts) :
              /\ DictHas(ret.value, k)
              /\ DictGet(ret.value, k) \in PathValuesOf(args.parts, k)

\* The tokens get_restful_params pairs: the path tokens less a leading 'v2'.
PairedTokens(urlstring) ==
    LET t == PathTokens(urlstring)
    IN  IF t[1] = ValidVersionSeg THEN Tail(t) ELSE t

LastPairOf(qp, k) ==
    CHOOSE i \in 1..Len(qp) : qp[i][1] = k /\ \A j \in (i + 1)..Len(qp) : qp[j][1] # k

\* C4 (amended): the returned map gives every name parse_qsl yields for the
\* query component the value of the last pair parse_qsl yields for that name,
\* also when a path key has the same name; and every key list_to_dict makes of
\* the path tokens, other than api_version, that no such pair names keeps the
\* value list_to_dict paired with it.
C4_ParsedQueryLastWinsPathKept ==
    Parsed =>
        LET qp == QueryParams(args.urlstring)
            pd == list_to_dict(PairedTokens(args.urlstring))
            qk == {qp[i][1] : i \in 1..Len(qp)}
        IN  /\ \A k \in qk :
                  /\ DictHas(ret.value, k)
                  /\ DictGet(ret.value, k) = qp[LastPairOf(qp, k)][2]
            /\ \A i \in 1..Len(pd) :
                  (pd[i][1] \notin qk /\ pd[i][1] # S_api_version)
                  => /\ DictHas(ret.value, pd[i][1])
                     /\ DictGet(ret.value, pd[i][1]) = pd[i][2]

\* C4 witness: a parsed URL whose query names 'a' twice with different
\* values, whose path has the key 'a' as well, and whose path has another key
\* that the query does not name.
C4_Witness ==
    /\ Parsed
    /\ LET qp == QueryParams(args.urlstring)
           pd == list_to_dict(PairedTokens(args.urlstring))
       IN  /\ Len(qp) = 2
           /\ qp[1][1] = <<"a">> /\ qp[2][1] = <<"a">> /\ qp[1][2] # qp[2][2]
           /\ DictHas(pd, <<"a">>)
           /\ DictGet(ret.value, <<"a">>) = qp[2][2]
           /\ DictHas(pd, <<"v", "9">>)
           /\ DictHas(ret.value, <<"v", "9">>)

\* C9 (as stated): a '/' closing the path before the query changes nothing,
\* P + '/' + '?' + Q parses as P + '?' + Q does, and no key or value of the
\* returned map is an empty string left by a leading or trailing '/' (stated
\* for URLs that have a path segment).
C9_PathSlashesStripped ==
    /\ (Parsed /\ Len(args.parts.segs) >= 1) =>
          \A i \in 1..Len(ret.value) :
              ret.value[i][1] # <<>> /\ ret.value[i][2] # <<>>
    /\ (fpc = "done" /\ args.parts.hasq /\ args.parts.trail = <<"/">>)
       => ret = get_restful_params(Assemble([args.parts EXCEPT !.trail = <<>>]))

-----------------------------------------------------------------------------
(* valid_exclude_list and valid_regex, common.py:278-296.                  *)

\* The compiler of re.compile on patterns made of literals, groups,
\* alternation and the '*' repeat: it reads the pattern from position i,
\* prev telling what the last item read was, and stops at the end of the
\* pattern or at a ')' it did not open.  err is the message of re.error.
RECURSIVE sre_parse(_, _, _)
sre_parse(s, i, prev) ==
    IF i > Len(s) THEN [pos |-> i, err |-> ""]
    ELSE CASE s[i] = "|" -> sre_parse(s, i + 1, "none")
           [] s[i] = ")" -> [pos |-> i, err |-> ""]
           [] s[i] = "(" ->
                LET r == sre_parse(s, i + 1, "none")
                IN  IF r.err # "" THEN r
                    ELSE IF r.pos > Len(s)
                    THEN [pos |-> r.pos, err |-> "missing ), unterminated subpattern"]
                    ELSE sre_parse(s, r.pos + 1, "atom")
           [] s[i] = "*" ->
                IF prev = "none" THEN [pos |-> i, err |-> "nothing to repeat"]
                ELSE IF prev = "repeat" THEN [pos |-> i, err |-> "multiple repeat"]
                ELSE sre_parse(s, i + 1, "repeat")
           [] OTHER -> sre_parse(s, i + 1, "atom")

\* re.compile(regex): the compiled pattern, or the message of the re.error.
re_compile(regex) ==
    LET r == sre_parse(regex, 1, "none")
    IN  IF r.err # "" THEN [ok |-> FALSE, msg |-> r.err]
        ELSE IF r.pos <= Len(regex) THEN [ok |-> FALSE, msg |-> "unbalanced parenthesis"]
        ELSE [ok |-> TRUE, msg |-> ""]

\* The (ok, compiled_regex, err) triple both functions return.
Triple(ok, compiled, err) ==
    [kind |-> "return", ok |-> ok, compiled |-> compiled, err |-> err]

\* A compiled pattern object.
Pattern(regex) == <<"re.Pattern", regex>>

valid_regex(regex) ==
    IF regex = None THEN Triple(TRUE, None, None)
    ELSE LET c == re_compile(regex)
         IN  IF c.ok THEN Triple(TRUE, Pattern(regex), None)
             ELSE Triple(FALSE, None, <<"Invalid regex: ", c.msg, ".">>)

\* line 282 without the enclosing parentheses.
valid_exclude_list_bare(exclude_list) ==
    IF exclude_list = <<>> THEN Triple(TRUE, None, None)
    ELSE valid_regex(Join(<<")", "|", "(">>, exclude_list))

valid_exclude_list(exclude_list) ==
    IF exclude_list = <<>> THEN Triple(TRUE, None, None)
    ELSE valid_regex(<<"(">> \o Join(<<")", "|", "(">>, exclude_list) \o <<")">>)

\* The patterns the exclude lists are made of.
PatternSet == {<<"a">>, <<"a", "*">>, <<"(">>, <<")", "(">>, <<"*">>, <<>>,
               <<"a", "|">>}

InitRegex ==
    /\ args \in {[fn |-> "valid_exclude_list", exclude_list |-> l] :
                    l \in SeqsUpTo(PatternSet, MaxPatterns)}
                \cup {[fn |-> "valid_regex", regex |-> r] :
                         r \in PatternSet \cup {None}}
    /\ ret = [kind |-> "none"]
    /\ fpc = "call"
    /\ handler_calls = <<>>
    /\ cfgIdle

CallValidExcludeList ==
    /\ fpc = "call"
    /\ args.fn = "valid_exclude_list"
    /\ ret' = valid_exclude_list(args.exclude_list)
    /\ fpc' = "done"
    /\ UNCHANGED <<args, handler_calls>>
    /\ UNCHANGED cfgVars

CallValidRegex ==
    /\ fpc = "call"
    /\ args.fn = "valid_regex"
    /\ ret' = valid_regex(args.regex)
    /\ fpc' = "done"
    /\ UNCHANGED <<args, handler_calls>>
    /\ UNCHANGED cfgVars

NextRegex == CallValidExcludeList \/ CallValidRegex

SpecRegex == InitRegex /\ [][NextRegex]_vars

\* '(p1)|(p2)|...' built one element at a time.
RECURSIVE Alternation(_)
Alternation(l) ==
    IF Len(l) = 1 THEN <<"(">> \o l[1] \o <<")">>
    ELSE <<"(">> \o l[1] \o <<")", "|">> \o Alternation(Tail(l))

ExcludeListDone == fpc = "done" /\ args.fn = "valid_exclude_list"

C6_ErrorReached ==
    /\ ExcludeListDone
    /\ ~ret.ok
    /\ ret.err = <<"Invalid regex: ", "nothing to repeat", ".">>

-----------------------------------------------------------------------------
(* echo_json_response, common.py:214-240.  Status codes are the keys of    *)
(* http.client.responses or not; the payload serialises or not.            *)

HandlerSet == {"None", "BaseHTTPRequestHandler", "tornado.web.RequestHandler",
               "object"}
CodeSet == {"None", "200", "404", "999"}
StatusSet == {"None", "OK", "custom"}
ResultsSet == {"None", "dict", "set"}

\* http.client.responses: the codes it has a reason phrase for.
responses == [c \in {"200", "404"} |-> IF c = "200" THEN "OK" ELSE "Not Found"]

\* json.dumps(json_res).encode('utf-8'): the envelope's three fields.
json_dumps(code, status, results) ==
    [code |-> code, status |-> status, results |-> results]

\* The outcome of the call and the calls it makes on the handler.
echo_json_response(handler, code, status, results) ==
    IF handler = "None" \/ code = "None"
    THEN [out |-> [kind |-> "return", value |-> FALSE], on_handler |-> <<>>]
    ELSE IF status = "None" /\ code \notin DOMAIN responses
    THEN [out |-> [kind |-> "raise", exc |-> "KeyError"], on_handler |-> <<>>]
    ELSE IF results = "set"
    THEN [out |-> [kind |-> "raise", exc |-> "TypeError"], on_handler |-> <<>>]
    ELSE LET st   == IF status = "None" THEN responses[code] ELSE status
             res  == IF results = "None" THEN "dict" ELSE results
             body == json_dumps(code, st, res)
         IN  IF handler = "BaseHTTPRequestHandler"
             THEN [out |-> [kind |-> "return", value |-> TRUE],
                   on_handler |->
                       << <<"send_response", code>>,
                          <<"send_header", "Content-Type", "application/json">>,
                          <<"end_headers">>,
                          <<"wfile.write", body>> >>]
             ELSE IF handler = "tornado.web.RequestHandler"
             THEN [out |-> [kind |-> "return", value |-> TRUE],
                   on_handler |->
                       << <<"set_status", code>>,
                          <<"set_header", "Content-Type", "application/json">>,
                          <<"write", body>>,
                          <<"finish">> >>]
             ELSE [out |-> [kind |-> "return", value |-> FALSE], on_handler |-> <<>>]

InitEcho ==
    /\ args \in [handler : HandlerSet, code : CodeSet, status : StatusSet,
                 results : ResultsSet]
    /\ ret = [kind |-> "none"]
    /\ fpc = "call"
    /\ handler_calls = <<>>
    /\ cfgIdle

CallEchoJsonResponse ==
    /\ fpc = "call"
    /\ LET r == echo_json_response(args.handler, args.code, args.status, args.results)
       IN  /\ ret' = r.out
           /\ handler_calls' = r.on_handler
    /\ fpc' = "done"
    /\ UNCHANGED args
    /\ UNCHANGED cfgVars

NextEcho == CallEchoJsonResponse

SpecEcho == InitEcho /\ [][NextEcho]_vars

\* C7 (as stated): with an absent handler, an absent status code or a handler
\* of neither protocol, for every status code and with or without a status
\* phrase, the call returns False, does not raise and calls nothing on the
\* handler.  Stated here for the payloads that serialise.
C7_UnsupportedReturnsFalse ==
    (/\ fpc = "done"
     /\ args.results # "set"
     /\ \/ args.handler = "None"
        \/ args.code = "None"
        \/ args.handler = "object")
    => /\ ret = [kind |-> "return", value |-> FALSE]
       /\ handler_calls = <<>>

====
